---- MODULE Spec2Model ----
(***************************************************************************)
(* Model of boto3async: the camel-case to snake-case converter, the        *)
(* augmentation of a client with <name>_async attributes, and the          *)
(* thread-offloaded invocation of those attributes from an event loop.     *)
(* Strings are sequences of one-character strings so that the regular      *)
(* expressions of _camel_to_snake can be run character by character.       *)
(***************************************************************************)
EXTENDS Integers, Sequences, FiniteSets, TLC

\* ------------------------------------------------------------------ bounds
MaxLen == 4
MaxPasses == 2
MaxCalls == 1

\* -------------------------------------------------------------- characters
UpperChars == <<"A","B","C","D","E","F","G","H","I","J","K","L","M",
                "N","O","P","Q","R","S","T","U","V","W","X","Y","Z">>
LowerChars == <<"a","b","c","d","e","f","g","h","i","j","k","l","m",
                "n","o","p","q","r","s","t","u","v","w","x","y","z">>
DigitChars == <<"0","1","2","3","4","5","6","7","8","9">>

Range(f) == {f[i] : i \in DOMAIN f}

UpperSet == Range(UpperChars)
LowerSet == Range(LowerChars)
DigitSet == Range(DigitChars)

\* [A-Z]
IsUpper(ch) == ch \in UpperSet
\* [a-z]
IsLower(ch) == ch \in LowerSet
\* [0-9]
IsDigit(ch) == ch \in DigitSet

\* str.lower() on one character
LowerChar(ch) ==
  IF IsUpper(ch)
    THEN LowerChars[CHOOSE i \in DOMAIN UpperChars : UpperChars[i] = ch]
    ELSE ch

\* str.lower()
lower(s) == [i \in DOMAIN s |-> LowerChar(s[i])]

\* ------------------------------------------------------ regular expressions
\* End of the greedy [a-z]+ run that starts at position p (p is lowercase).
RECURSIVE LowerRunEnd(_, _)
LowerRunEnd(s, p) ==
  IF p + 1 <= Len(s) /\ IsLower(s[p + 1]) THEN LowerRunEnd(s, p + 1) ELSE p

\* re.sub('(.)([A-Z][a-z]+)', r'\1_\2', s), scanning from position pos:
\* leftmost non-overlapping matches, the scan resuming after each match.
RECURSIVE sub_first(_, _)
sub_first(s, pos) ==
  IF pos > Len(s) THEN <<>>
  ELSE IF pos + 2 <= Len(s) /\ IsUpper(s[pos + 1]) /\ IsLower(s[pos + 2])
    THEN LET e == LowerRunEnd(s, pos + 2)
         IN  <<s[pos], "_">> \o SubSeq(s, pos + 1, e) \o sub_first(s, e + 1)
    ELSE <<s[pos]>> \o sub_first(s, pos + 1)

\* re.sub('([a-z0-9])([A-Z])', r'\1_\2', s), scanning from position pos.
RECURSIVE sub_second(_, _)
sub_second(s, pos) ==
  IF pos > Len(s) THEN <<>>
  ELSE IF pos + 1 <= Len(s) /\ (IsLower(s[pos]) \/ IsDigit(s[pos]))
                            /\ IsUpper(s[pos + 1])
    THEN <<s[pos], "_", s[pos + 1]>> \o sub_second(s, pos + 2)
    ELSE <<s[pos]>> \o sub_second(s, pos + 1)

\* A plausible slip: the second expression written as ([a-z])([A-Z]).
RECURSIVE sub_second_nodigit(_, _)
sub_second_nodigit(s, pos) ==
  IF pos > Len(s) THEN <<>>
  ELSE IF pos + 1 <= Len(s) /\ IsLower(s[pos]) /\ IsUpper(s[pos + 1])
    THEN <<s[pos], "_", s[pos + 1]>> \o sub_second_nodigit(s, pos + 2)
    ELSE <<s[pos]>> \o sub_second_nodigit(s, pos + 1)

_camel_to_snake_nodigit(nm) == lower(sub_second_nodigit(sub_first(nm, 1), 1))

_camel_to_snake(nm) == lower(sub_second(sub_first(nm, 1), 1))

\* ------------------------------------------------------------- the client
\* Operation names a service model may declare (botocore spells them in
\* Pascal case) and the suffix of line 47.
OpGo == <<"G","o">>
OpGoAsync == <<"G","o","A","s","y","n","c">>
OpPutACL == <<"P","u","t","A","C","L">>
OpUniverse == {OpGo, OpGoAsync, OpPutACL}

AsyncSuffix == <<"_","a","s","y","n","c">>
MetaName == <<"m","e","t","a">>
TheClient == "client"

\* A bound method of the client as boto3 built it.
SyncMethod(nm) == [kind |-> "function", base |-> nm, wraps |-> 0]
\* A non-callable attribute of the client (client.meta).
DataAttr(nm) == [kind |-> "data", base |-> nm, wraps |-> 0]

\* asyncio.iscoroutinefunction(v): v was made by create_async_func
IsCoroutineFunction(v) == v.kind = "function" /\ v.wraps >= 1

\* operation_names is a list without duplicates, in the service model's order.
OperationLists ==
  UNION {{s \in [1..n -> OpUniverse] : \A i, j \in 1..n : s[i] = s[j] => i = j}
          : n \in 0..Cardinality(OpUniverse)}

\* The attributes a client can have before it is augmented: client.meta and
\* a bound method for some of the conventional names.
ClientAttrs(methods) ==
  [n \in methods \cup {MetaName} |->
      IF n = MetaName THEN DataAttr(n) ELSE SyncMethod(n)]

\* The method names the client can have been built with: the conventional
\* name of every declared operation, or all of them but one.
ConventionalNames(ops) == {_camel_to_snake(o) : o \in Range(ops)}
ClientMethodSets(ops) ==
  {ConventionalNames(ops)} \cup
  {ConventionalNames(ops) \ {n} : n \in ConventionalNames(ops)}

\* f'{operation_camelcase}_async' with the underscore forgotten.
async_name_nounderscore(operation_camelcase) ==
  operation_camelcase \o <<"a","s","y","n","c">>

\* f'{operation_camelcase}_async'
async_name(operation_camelcase) == operation_camelcase \o AsyncSuffix

\* setattr(client, n, v)
setattr(a, n, v) == [m \in DOMAIN a \cup {n} |-> IF m = n THEN v ELSE a[m]]

\* hasattr(client, n): getattr raises AttributeError when it is false
hasattr(a, n) == n \in DOMAIN a

\* create_async_func(sync_func): a coroutine function closing over sync_func.
create_async_func(sync_func) ==
  [kind |-> "function", base |-> sync_func.base, wraps |-> sync_func.wraps + 1]

\* The object the coroutine function closes over (its sync_func).
closure_sync_func(async_func) ==
  [kind |-> "function", base |-> async_func.base, wraps |-> async_func.wraps - 1]

\* A loop that swallows the AttributeError and goes on to the next operation.
RECURSIVE augment_loop_skipping(_, _, _)
augment_loop_skipping(a, ops, i) ==
  IF i > Len(ops)
    THEN [attrs |-> a, status |-> "returned", at |-> 0, exc |-> <<>>]
    ELSE LET operation_camelcase == _camel_to_snake(ops[i])
         IN  IF ~hasattr(a, operation_camelcase)
               THEN augment_loop_skipping(a, ops, i + 1)
               ELSE augment_loop_skipping(
                      setattr(a, async_name(operation_camelcase),
                              create_async_func(a[operation_camelcase])),
                      ops, i + 1)

\* The for loop of asyncify_client from its i-th operation on: the
\* attributes it leaves, how it ends, and where it raised.
RECURSIVE augment_loop(_, _, _)
augment_loop(a, ops, i) ==
  IF i > Len(ops)
    THEN [attrs |-> a, status |-> "returned", at |-> 0, exc |-> <<>>]
    ELSE LET operation_camelcase == _camel_to_snake(ops[i])
         IN  IF ~hasattr(a, operation_camelcase)
               THEN [attrs |-> a, status |-> "raised", at |-> i,
                     exc |-> <<"AttributeError", operation_camelcase>>]
               ELSE augment_loop(
                      setattr(a, async_name(operation_camelcase),
                              create_async_func(a[operation_camelcase])),
                      ops, i + 1)

\* ------------------------------------------------------------ invocations
\* The coroutines that use the client concurrently.
Callers == {"c1", "c2"}
ArgVals == {"ok", "bad"}
\* The ambient context of the asyncio task of coroutine c.
task_context(c) == <<"context", c>>

NoJob == [state |-> "none", func |-> DataAttr(<<>>), args |-> "", ctx |-> <<>>,
          thread |-> "", outcome |-> <<>>]
NoTask == [pc |-> "idle", ctx |-> <<>>, attr |-> <<>>, op |-> <<>>, args |-> "",
           ncalls |-> 0, result |-> <<>>]

\* What the client's own method <nm> does when called with args (the mocked
\* collaborator): it returns a value made of its name and its arguments, or
\* raises a ClientError whose message is made of them.
sync_call(nm, args) ==
  IF args = "bad" THEN <<"raise", "ClientError", nm, 0, args>>
                  ELSE <<"return", "response", nm, 0, args>>

\* func(*args, **kwargs) as the worker thread evaluates it: a bound method
\* runs; a coroutine function only builds a coroutine object and returns it.
func_result(func, args) ==
  IF func.wraps = 0 THEN sync_call(func.base, args)
                    ELSE <<"return", "coroutine", func.base, func.wraps, args>>

\* contextvars.copy_context() left out: the worker runs in its own context.
no_copy_context(task_ctx) == <<"context", "worker thread">>

\* contextvars.copy_context() in the calling task
copy_context(task_ctx) == task_ctx

\* The function called directly instead of through run_in_executor.
inline_thread == "loop"

\* loop.run_in_executor(None, func_call): the thread func_call runs on
executor_thread == "worker"

\* An await that turns a failure of the future into a normal None.
await_swallowing(outcome) ==
  IF outcome[1] = "raise" THEN <<"return", "None", <<>>, 0, "">> ELSE outcome

\* await future: the caller gets the future's result or its exception
await_future(outcome) == outcome

\* ------------------------------------------------------------------ state
VARIABLES
  name,             \* the argument of _camel_to_snake
  snake,            \* its result, <<"unset">> before the call
  operation_names,  \* client._service_model.operation_names
  attrs,            \* the client's attributes: name -> value
  attrs0,           \* the attributes the client was built with
  before,           \* the attributes at the start of the latest asyncify_client
  aug,              \* how the latest asyncify_client ended, and how many ran
  task,             \* the coroutines of the event loop that use the client
  job,              \* the executor's work item of each coroutine
  ran               \* the executions of client methods for each coroutine's call

vars == <<name, snake, operation_names, attrs, attrs0, before, aug, task, job, ran>>
clientVars == <<operation_names, attrs, attrs0, before, aug>>
callVars == <<task, job, ran>>

Unset == <<"unset">>

\* The names the converter is run on: every name of at most MaxLen
\* characters over a small alphabet, and the names of the tests.
Alphabet == {"a", "b", "A", "B", "1"}
ExTestVariable == <<"T","e","s","t","V","a","r","i","a","b","l","e">>
ExTest123Variable == <<"T","e","s","t","1","2","3","V","a","r","i","a","b","l","e">>
ExtestVariable == <<"t","e","s","t","V","a","r","i","a","b","l","e">>
ExtestHTTPMethod == <<"t","e","s","t","H","T","T","P","M","e","t","h","o","d">>
Examples == {ExTestVariable, ExTest123Variable, ExtestVariable, ExtestHTTPMethod}
Names == UNION {[1..n -> Alphabet] : n \in 1..MaxLen} \cup Examples \cup OpUniverse

Init ==
  /\ name = <<>>
  /\ snake = Unset
  /\ operation_names \in OperationLists
  /\ \E methods \in ClientMethodSets(operation_names) : attrs = ClientAttrs(methods)
  /\ attrs0 = attrs
  /\ before = attrs
  /\ aug = [status |-> "new", at |-> 0, exc |-> <<>>, passes |-> 0, retval |-> "none"]
  /\ task = [c \in Callers |-> NoTask]
  /\ job = [c \in Callers |-> NoJob]
  /\ ran = [c \in Callers |-> <<>>]

\* asyncify_client(client): the whole call, loop and return.
asyncify_client(client) ==
  /\ aug.passes < MaxPasses
  /\ LET r == augment_loop(attrs, operation_names, 1)
     IN  /\ before' = attrs
         /\ attrs' = r.attrs
         /\ aug' = [status |-> r.status, at |-> r.at, exc |-> r.exc,
                    passes |-> aug.passes + 1,
                    retval |-> IF r.status = "returned" THEN client ELSE "none"]
  /\ UNCHANGED <<name, snake, operation_names, attrs0, callVars>>

\* A coroutine c evaluates
\* client.<nm>_async(args) and awaits it: async_func runs _to_thread up to
\* the await of the executor's future.
async_func(c, op, args) ==
  LET attr == _camel_to_snake(op) \o AsyncSuffix
  IN  /\ aug.status = "returned"
      /\ task[c].pc \in {"idle", "done"}
      /\ task[c].ncalls < MaxCalls
      /\ op \in Range(operation_names)
      /\ attr \in DOMAIN attrs
      /\ IsCoroutineFunction(attrs[attr])
      /\ task' = [task EXCEPT ![c] =
                    [pc |-> "awaiting", ctx |-> task_context(c), attr |-> attr, op |-> op,
                     args |-> args, ncalls |-> @.ncalls + 1, result |-> <<>>]]
      /\ job' = [job EXCEPT ![c] =
                    [state |-> "queued", func |-> closure_sync_func(attrs[attr]),
                     args |-> args, ctx |-> copy_context(task_context(c)),
                     thread |-> executor_thread, outcome |-> <<>>]]
      /\ ran' = [ran EXCEPT ![c] = <<>>]
      /\ UNCHANGED <<name, snake, clientVars>>

\* The job's thread starts func_call: ctx.run(func, *args, **kwargs). A
\* bound method of the client starts executing there.
func_call_start(c) ==
  /\ job[c].state = "queued"
  /\ job' = [job EXCEPT ![c].state = "running"]
  /\ ran' = [ran EXCEPT ![c] =
               IF job[c].func.wraps = 0
                 THEN Append(@, [method |-> job[c].func.base, args |-> job[c].args,
                                 ctx |-> job[c].ctx, thread |-> job[c].thread])
                 ELSE @]
  /\ UNCHANGED <<name, snake, clientVars, task>>

\* func_call returns or raises: the future is completed with the outcome.
func_call_end(c) ==
  /\ job[c].state = "running"
  /\ job' = [job EXCEPT ![c].state = "done",
                        ![c].outcome = func_result(job[c].func, job[c].args)]
  /\ UNCHANGED <<name, snake, clientVars, task, ran>>

\* The event loop resumes the coroutine that awaits the completed future.
resume(c) ==
  /\ task[c].pc = "awaiting"
  /\ job[c].state = "done"
  /\ task' = [task EXCEPT ![c].pc = "done",
                          ![c].result = await_future(job[c].outcome)]
  /\ UNCHANGED <<name, snake, clientVars, job, ran>>

Next ==
  \/ asyncify_client(TheClient)
  \/ \E c \in Callers, op \in OpUniverse, args \in ArgVals :
        async_func(c, op, args)
  \/ \E c \in Callers : func_call_start(c)
  \/ \E c \in Callers : func_call_end(c)
  \/ \E c \in Callers : resume(c)

Spec == Init /\ [][Next]_vars

\* The executor runs every submitted job and the loop runs every ready
\* callback.
FairSpec ==
  /\ Spec
  /\ \A c \in Callers :
        WF_vars(func_call_start(c)) /\ WF_vars(func_call_end(c)) /\ WF_vars(resume(c))

\* The converter alone, applied to every name of Names.
SnakeInit ==
  /\ name \in Names
  /\ snake = Unset
  /\ operation_names = <<>>
  /\ attrs = ClientAttrs({})
  /\ attrs0 = attrs
  /\ before = attrs
  /\ aug = [status |-> "new", at |-> 0, exc |-> <<>>, passes |-> 0, retval |-> "none"]
  /\ task = [c \in Callers |-> NoTask]
  /\ job = [c \in Callers |-> NoJob]
  /\ ran = [c \in Callers |-> <<>>]

camel_to_snake_call ==
  /\ snake = Unset
  /\ snake' = _camel_to_snake(name)
  /\ UNCHANGED <<name, clientVars, callVars>>

SnakeSpec == SnakeInit /\ [][camel_to_snake_call]_vars

\* ------------------------------------------------------------- properties

\* C1: after asyncify_client returns normally, every declared operation has
\* a callable attribute <snake name>_async, and the value returned is the
\* client that was passed in.
C1_AsyncAttributesPresent ==
  aug.status = "returned" =>
    /\ \A i \in DOMAIN operation_names :
          LET n == _camel_to_snake(operation_names[i]) \o <<"_","a","s","y","n","c">>
          IN  n \in DOMAIN attrs /\ attrs[n].kind = "function"
    /\ aug.retval = "client"

C1_Witness ==
  /\ aug.status = "returned"
  /\ Len(operation_names) >= 2
  /\ \E i \in DOMAIN operation_names : operation_names[i] = OpPutACL

\* C2: a completed <name>_async(args) has run the original method <name>
\* exactly once, with those arguments, and has given the caller exactly what
\* that method returned, whatever the set of declared operations.
C2_AsyncRunsOriginalOnce ==
  \A c \in Callers :
    task[c].pc = "done" =>
      LET nm == _camel_to_snake(task[c].op)
      IN  /\ Len(ran[c]) = 1
          /\ ran[c][1].method = nm
          /\ ran[c][1].args = task[c].args
          /\ task[c].args # "bad" =>
                task[c].result = <<"return", "response", nm, 0, task[c].args>>

\* C3: when the client's method raised on the worker thread, the caller of
\* the _async attribute ends with that same failure, and the method ran once.
C3_FailurePropagates ==
  \A c \in Callers :
    (task[c].pc = "done" /\ job[c].outcome[1] = "raise") =>
      /\ Len(ran[c]) = 1
      /\ task[c].result =
           <<"raise", "ClientError", ran[c][1].method, 0, ran[c][1].args>>
      /\ ran[c][1].args = task[c].args

C3_Witness ==
  \E c \in Callers :
    /\ task[c].pc = "done"
    /\ task[c].result[1] = "raise"
    /\ Len(ran[c]) = 1

\* C4: asyncify_client keeps every attribute the client had and its value,
\* and only adds attributes named <snake name>_async of declared operations.
C4_ExistingAttributesKept ==
  aug.status = "returned" =>
    /\ \A n \in DOMAIN before : n \in DOMAIN attrs /\ attrs[n] = before[n]
    /\ \A n \in DOMAIN attrs \ DOMAIN before :
          \E i \in DOMAIN operation_names :
             n = _camel_to_snake(operation_names[i]) \o AsyncSuffix

\* C5: after two or more calls of asyncify_client the original methods are
\* still bound to their original callables, every <name>_async wraps the
\* original method <name> directly, and awaiting it gives that method's result.
C5_RepeatedAugmentationSafe ==
  (aug.status = "returned" /\ aug.passes >= 2) =>
    /\ \A n \in DOMAIN attrs0 : n \in DOMAIN attrs /\ attrs[n] = attrs0[n]
    /\ \A i \in DOMAIN operation_names :
          LET nm == _camel_to_snake(operation_names[i])
          IN  /\ nm \o AsyncSuffix \in DOMAIN attrs
              /\ attrs[nm \o AsyncSuffix] =
                   [kind |-> "function", base |-> nm, wraps |-> 1]

\* C6: under fair scheduling every awaited invocation completes, and each
\* execution of a client method sees the arguments and the context of its own
\* caller, and each caller gets the outcome of its own invocation.
C6_Isolation ==
  \A c \in Callers :
    /\ \A k \in DOMAIN ran[c] :
          /\ ran[c][k].args = task[c].args
          /\ ran[c][k].ctx = <<"context", c>>
    /\ task[c].pc = "done" =>
          /\ task[c].result[5] = task[c].args
          /\ \A k \in DOMAIN ran[c] : task[c].result[3] = ran[c][k].method

C6_ConcurrentCallsComplete ==
  /\ \A c \in Callers : (task[c].pc = "awaiting") ~> (task[c].pc = "done")
  /\ []C6_Isolation

C6_Witness ==
  /\ task["c1"].pc = "awaiting" /\ job["c1"].state = "done"
  /\ task["c2"].pc = "awaiting" /\ job["c2"].state = "done"
  /\ task["c1"].op # task["c2"].op
  /\ task["c1"].args # task["c2"].args
  /\ Len(ran["c1"]) = 1 /\ Len(ran["c2"]) = 1

\* C7: a client method executes on a worker thread, never on the loop's
\* thread; while a job is scheduled and not complete any other ready
\* coroutine can take its step on the loop; and a coroutine is resumed only
\* once its job has completed.
C7_LoopNotBlocked ==
  /\ [](\A c \in Callers :
          /\ \A k \in DOMAIN ran[c] : ran[c][k].thread = "worker"
          /\ job[c].state \in {"queued", "running"} =>
                \A d \in Callers \ {c} :
                   (task[d].pc \in {"idle", "done"} /\ task[d].ncalls < MaxCalls) =>
                      ENABLED (\E op \in OpUniverse, args \in ArgVals :
                                  async_func(d, op, args)))
  /\ [][\A c \in Callers :
          (task[c].pc = "awaiting" /\ task'[c].pc = "done") =>
             job[c].state = "done"]_vars

C7_Witness ==
  /\ job["c1"].state = "running"
  /\ Len(ran["c1"]) = 1
  /\ task["c2"].pc = "awaiting"
  /\ job["c2"].state = "queued"

\* C8: when the conventional name of an operation is not an attribute of the
\* client, asyncify_client raises AttributeError at the first such operation:
\* the operations before it have their _async attribute, nothing else was
\* added, and a call that returned normally skipped no operation.
C8_StopsAtMissingMethod ==
  /\ aug.status = "raised" =>
       LET k == aug.at
       IN  /\ k \in DOMAIN operation_names
           /\ aug.exc = <<"AttributeError", _camel_to_snake(operation_names[k])>>
           /\ _camel_to_snake(operation_names[k]) \notin DOMAIN attrs
           /\ aug.retval = "none"
           /\ \A i \in 1..(k - 1) :
                 LET nm == _camel_to_snake(operation_names[i])
                 IN  /\ nm \in DOMAIN attrs
                     /\ nm \o AsyncSuffix \in DOMAIN attrs
                     /\ attrs[nm \o AsyncSuffix].wraps >= 1
           /\ \A n \in DOMAIN attrs \ DOMAIN attrs0 :
                 \E i \in 1..(k - 1) :
                    n = _camel_to_snake(operation_names[i]) \o AsyncSuffix
  /\ aug.status = "returned" =>
       \A i \in DOMAIN operation_names :
          _camel_to_snake(operation_names[i]) \in DOMAIN attrs

C8_Witness ==
  /\ aug.status = "raised"
  /\ aug.at = 2
  /\ Len(operation_names) = 3
  /\ _camel_to_snake(operation_names[1]) \o AsyncSuffix \in DOMAIN attrs
  /\ _camel_to_snake(operation_names[3]) \in DOMAIN attrs
  /\ _camel_to_snake(operation_names[3]) \o AsyncSuffix \notin DOMAIN attrs

\* C9: _camel_to_snake(name) is the name with '_' inserted before every
\* uppercase letter that follows a character and is followed by a lowercase
\* letter, then before every uppercase letter that follows a lowercase letter
\* or a digit, then lowercased; it has no uppercase letter, it is the
\* lowercased name once its '_' are removed, an acronym run and the digits
\* stay with their token, and the four names of the tests convert as stated.
C9_SnakeCase ==
  snake # Unset =>
    LET RECURSIVE ins(_, _, _)
        ins(s, P, i) ==
          IF i > Len(s) THEN <<>>
          ELSE (IF i \in P THEN <<"_">> ELSE <<>>) \o <<s[i]>> \o ins(s, P, i + 1)
        step1 == ins(name, {p \in 2..(Len(name) - 1) :
                               name[p] \in UpperSet /\ name[p + 1] \in LowerSet}, 1)
        step2 == ins(step1, {p \in 2..Len(step1) :
                               /\ step1[p] \in UpperSet
                               /\ step1[p - 1] \in LowerSet \cup DigitSet}, 1)
        boundaries == {p \in 2..Len(name) :
                         /\ name[p] \in UpperSet
                         /\ \/ name[p - 1] \in LowerSet \cup DigitSet
                            \/ p < Len(name) /\ name[p + 1] \in LowerSet}
    IN  /\ snake = [i \in DOMAIN step2 |-> LowerChar(step2[i])]
        /\ \A i \in DOMAIN snake : snake[i] \notin UpperSet
        /\ SelectSeq(snake, LAMBDA ch : ch # "_") =
             [i \in DOMAIN name |-> LowerChar(name[i])]
        /\ Len(snake) = Len(name) + Cardinality(boundaries)
        /\ \A i \in DOMAIN snake :
              snake[i] = "_" =>
                 i > 1 /\ i < Len(snake) /\ snake[i + 1] \notin DigitSet
        /\ name = ExTestVariable =>
              snake = <<"t","e","s","t","_","v","a","r","i","a","b","l","e">>
        /\ name = ExTest123Variable =>
              snake = <<"t","e","s","t","1","2","3","_","v","a","r","i","a","b","l","e">>
        /\ name = ExtestVariable =>
              snake = <<"t","e","s","t","_","v","a","r","i","a","b","l","e">>
        /\ name = ExtestHTTPMethod =>
              snake = <<"t","e","s","t","_","h","t","t","p","_",
                        "m","e","t","h","o","d">>

C9_Witness ==
  /\ name = <<"1", "A", "B", "a">>
  /\ snake = <<"1", "_", "a", "_", "b", "a">>

\* C10: the order of the declared operations does not matter: any other
\* order of the same operations that also returns normally leaves the same
\* attribute names, each bound to a wrapper of the same callable.
C10_OrderIndependent ==
  (aug.status = "returned" /\ aug.passes = 1) =>
    \A p \in [DOMAIN operation_names -> Range(operation_names)] :
       (\A i, j \in DOMAIN p : p[i] = p[j] => i = j) =>
          LET r == augment_loop(before, p, 1)
          IN  r.status = "returned" => r.attrs = attrs

====
